---- MODULE Spec2Model ----
(***************************************************************************)
(* Model of backend/app/main.py of Medical-Agent: the HCPCS charge index   *)
(* (load_hcpcs_database), the code lookup (lookup_hcpcs_code), the search  *)
(* for cheaper alternatives (find_similar_cheaper_codes), the charge       *)
(* parser and the bill-analysis request (analyze_bill).                    *)
(*                                                                         *)
(* Encoding.  A Python str whose characters matter (descriptions, charge   *)
(* strings) is the sequence of its code points; codes, settings and other  *)
(* opaque strings are TLA+ strings.  An Optional value is a sequence of    *)
(* length at most one: None is <<>>, a present value v is <<v>>.  A       *)
(* number of the disclosure document and a Python float are IEEE 754       *)
(* doubles.                                                                *)
(***************************************************************************)
EXTENDS Integers, Sequences, FiniteSets, TLC

VARIABLES doc, HCPCS_DATABASE, loaded, ret, req

vars == <<doc, HCPCS_DATABASE, loaded, ret, req>>

(***************************************************************************)
(* Bounds of the model.                                                    *)
(***************************************************************************)
MaxRecords == 3
MaxBillRecords == 1
MaxLimit == 3
MaxItems == 3
MaxValidations == 2

(***************************************************************************)
(* Optional values and Python truthiness.                                  *)
(***************************************************************************)
None == <<>>

Some(v) == <<v>>

IsNone(o) == Len(o) = 0

Val(o) == o[1]

\* truthiness of an Optional[str]: None and "" are falsy
TruthyStr(o) == ~IsNone(o) /\ Val(o) # ""

\* truthiness of an Optional[str] held as a character sequence
TruthyChars(o) == ~IsNone(o) /\ Len(Val(o)) > 0

\* the least of a set of integers
MinOf(S) == CHOOSE m \in S : \A x \in S : m <= x

(***************************************************************************)
(* Character strings.  A character is its Unicode code point, a number in  *)
(* 0..1114111, and a str is the sequence of its characters.  The tables    *)
(* are those of Unicode 14.0.0, the version of the Python 3.11 the program *)
(* runs on; each row of a table of ranges is <<first, last>>.              *)
(***************************************************************************)
InRanges(c, ranges) ==
  \E i \in 1..Len(ranges) : ranges[i][1] <= c /\ c <= ranges[i][2]

SpaceRanges ==
  << <<9, 13>>, <<28, 32>>, <<133, 133>>, <<160, 160>>, <<5760, 5760>>,
     <<8192, 8202>>, <<8232, 8233>>, <<8239, 8239>>, <<8287, 8287>>,
     <<12288, 12288>> >>

\* str.isspace() on one character: what str.split() and str.strip() treat
\* as white space
IsSpace(c) ==
  IF c < 128 THEN (9 <= c /\ c <= 13) \/ (28 <= c /\ c <= 32)
  ELSE InRanges(c, SpaceRanges)

\* The characters above ASCII that str.lower() maps to one other character:
\* a row <<first, last, step, delta>> maps first, first + step, ..., last
\* each to itself + delta.
LowerRules ==
  << <<192, 214, 1, 32>>, <<216, 222, 1, 32>>, <<256, 302, 2, 1>>,
     <<306, 310, 2, 1>>, <<313, 327, 2, 1>>, <<330, 374, 2, 1>>,
     <<376, 376, 1, -121>>, <<377, 381, 2, 1>>, <<385, 385, 1, 210>>,
     <<386, 388, 2, 1>>, <<390, 390, 1, 206>>, <<391, 391, 1, 1>>,
     <<393, 394, 1, 205>>, <<395, 395, 1, 1>>, <<398, 398, 1, 79>>,
     <<399, 399, 1, 202>>, <<400, 400, 1, 203>>, <<401, 401, 1, 1>>,
     <<403, 403, 1, 205>>, <<404, 404, 1, 207>>, <<406, 406, 1, 211>>,
     <<407, 407, 1, 209>>, <<408, 408, 1, 1>>, <<412, 412, 1, 211>>,
     <<413, 413, 1, 213>>, <<415, 415, 1, 214>>, <<416, 420, 2, 1>>,
     <<422, 422, 1, 218>>, <<423, 423, 1, 1>>, <<425, 425, 1, 218>>,
     <<428, 428, 1, 1>>, <<430, 430, 1, 218>>, <<431, 431, 1, 1>>,
     <<433, 434, 1, 217>>, <<435, 437, 2, 1>>, <<439, 439, 1, 219>>,
     <<440, 440, 1, 1>>, <<444, 444, 1, 1>>, <<452, 452, 1, 2>>,
     <<453, 453, 1, 1>>, <<455, 455, 1, 2>>, <<456, 456, 1, 1>>,
     <<458, 458, 1, 2>>, <<459, 475, 2, 1>>, <<478, 494, 2, 1>>,
     <<497, 497, 1, 2>>, <<498, 500, 2, 1>>, <<502, 502, 1, -97>>,
     <<503, 503, 1, -56>>, <<504, 542, 2, 1>>, <<544, 544, 1, -130>>,
     <<546, 562, 2, 1>>, <<570, 570, 1, 10795>>, <<571, 571, 1, 1>>,
     <<573, 573, 1, -163>>, <<574, 574, 1, 10792>>, <<577, 577, 1, 1>>,
     <<579, 579, 1, -195>>, <<580, 580, 1, 69>>, <<581, 581, 1, 71>>,
     <<582, 590, 2, 1>>, <<880, 882, 2, 1>>, <<886, 886, 1, 1>>,
     <<895, 895, 1, 116>>, <<902, 902, 1, 38>>, <<904, 906, 1, 37>>,
     <<908, 908, 1, 64>>, <<910, 911, 1, 63>>, <<913, 929, 1, 32>>,
     <<932, 939, 1, 32>>, <<975, 975, 1, 8>>, <<984, 1006, 2, 1>>,
     <<1012, 1012, 1, -60>>, <<1015, 1015, 1, 1>>, <<1017, 1017, 1, -7>>,
     <<1018, 1018, 1, 1>>, <<1021, 1023, 1, -130>>, <<1024, 1039, 1, 80>>,
     <<1040, 1071, 1, 32>>, <<1120, 1152, 2, 1>>, <<1162, 1214, 2, 1>>,
     <<1216, 1216, 1, 15>>, <<1217, 1229, 2, 1>>, <<1232, 1326, 2, 1>>,
     <<1329, 1366, 1, 48>>, <<4256, 4293, 1, 7264>>, <<4295, 4295, 1, 7264>>,
     <<4301, 4301, 1, 7264>>, <<5024, 5103, 1, 38864>>, <<5104, 5109, 1, 8>>,
     <<7312, 7354, 1, -3008>>, <<7357, 7359, 1, -3008>>, <<7680, 7828, 2, 1>>,
     <<7838, 7838, 1, -7615>>, <<7840, 7934, 2, 1>>, <<7944, 7951, 1, -8>>,
     <<7960, 7965, 1, -8>>, <<7976, 7983, 1, -8>>, <<7992, 7999, 1, -8>>,
     <<8008, 8013, 1, -8>>, <<8025, 8031, 2, -8>>, <<8040, 8047, 1, -8>>,
     <<8072, 8079, 1, -8>>, <<8088, 8095, 1, -8>>, <<8104, 8111, 1, -8>>,
     <<8120, 8121, 1, -8>>, <<8122, 8123, 1, -74>>, <<8124, 8124, 1, -9>>,
     <<8136, 8139, 1, -86>>, <<8140, 8140, 1, -9>>, <<8152, 8153, 1, -8>>,
     <<8154, 8155, 1, -100>>, <<8168, 8169, 1, -8>>, <<8170, 8171, 1, -112>>,
     <<8172, 8172, 1, -7>>, <<8184, 8185, 1, -128>>, <<8186, 8187, 1, -126>>,
     <<8188, 8188, 1, -9>>, <<8486, 8486, 1, -7517>>,
     <<8490, 8490, 1, -8383>>, <<8491, 8491, 1, -8262>>,
     <<8498, 8498, 1, 28>>, <<8544, 8559, 1, 16>>, <<8579, 8579, 1, 1>>,
     <<9398, 9423, 1, 26>>, <<11264, 11311, 1, 48>>, <<11360, 11360, 1, 1>>,
     <<11362, 11362, 1, -10743>>, <<11363, 11363, 1, -3814>>,
     <<11364, 11364, 1, -10727>>, <<11367, 11371, 2, 1>>,
     <<11373, 11373, 1, -10780>>, <<11374, 11374, 1, -10749>>,
     <<11375, 11375, 1, -10783>>, <<11376, 11376, 1, -10782>>,
     <<11378, 11378, 1, 1>>, <<11381, 11381, 1, 1>>,
     <<11390, 11391, 1, -10815>>, <<11392, 11490, 2, 1>>,
     <<11499, 11501, 2, 1>>, <<11506, 11506, 1, 1>>, <<42560, 42604, 2, 1>>,
     <<42624, 42650, 2, 1>>, <<42786, 42798, 2, 1>>, <<42802, 42862, 2, 1>>,
     <<42873, 42875, 2, 1>>, <<42877, 42877, 1, -35332>>,
     <<42878, 42886, 2, 1>>, <<42891, 42891, 1, 1>>,
     <<42893, 42893, 1, -42280>>, <<42896, 42898, 2, 1>>,
     <<42902, 42920, 2, 1>>, <<42922, 42922, 1, -42308>>,
     <<42923, 42923, 1, -42319>>, <<42924, 42924, 1, -42315>>,
     <<42925, 42925, 1, -42305>>, <<42926, 42926, 1, -42308>>,
     <<42928, 42928, 1, -42258>>, <<42929, 42929, 1, -42282>>,
     <<42930, 42930, 1, -42261>>, <<42931, 42931, 1, 928>>,
     <<42932, 42946, 2, 1>>, <<42948, 42948, 1, -48>>,
     <<42949, 42949, 1, -42307>>, <<42950, 42950, 1, -35384>>,
     <<42951, 42953, 2, 1>>, <<42960, 42960, 1, 1>>, <<42966, 42968, 2, 1>>,
     <<42997, 42997, 1, 1>>, <<65313, 65338, 1, 32>>, <<66560, 66599, 1, 40>>,
     <<66736, 66771, 1, 40>>, <<66928, 66938, 1, 39>>,
     <<66940, 66954, 1, 39>>, <<66956, 66962, 1, 39>>,
     <<66964, 66965, 1, 39>>, <<68736, 68786, 1, 64>>,
     <<71840, 71871, 1, 32>>, <<93760, 93791, 1, 32>>,
     <<125184, 125217, 1, 34>> >>

LowerRule(c) ==
  {i \in 1..Len(LowerRules) :
     /\ LowerRules[i][1] <= c
     /\ c <= LowerRules[i][2]
     /\ (c - LowerRules[i][1]) % LowerRules[i][3] = 0}

\* str.lower() on one character other than U+0130 and U+03A3
LowerChar(c) ==
  IF c < 128 THEN (IF 65 <= c /\ c <= 90 THEN c + 32 ELSE c)
  ELSE IF LowerRule(c) = {} THEN c
  ELSE c + LowerRules[CHOOSE i \in LowerRule(c) : TRUE][4]

\* the characters the final-sigma rule skips (Case_Ignorable)
CaseIgnorableRanges ==
  << <<39, 39>>, <<46, 46>>, <<58, 58>>, <<94, 94>>, <<96, 96>>, <<168, 168>>,
     <<173, 173>>, <<175, 175>>, <<180, 180>>, <<183, 184>>, <<688, 879>>,
     <<884, 885>>, <<890, 890>>, <<900, 901>>, <<903, 903>>, <<1155, 1161>>,
     <<1369, 1369>>, <<1375, 1375>>, <<1425, 1469>>, <<1471, 1471>>,
     <<1473, 1474>>, <<1476, 1477>>, <<1479, 1479>>, <<1524, 1524>>,
     <<1536, 1541>>, <<1552, 1562>>, <<1564, 1564>>, <<1600, 1600>>,
     <<1611, 1631>>, <<1648, 1648>>, <<1750, 1757>>, <<1759, 1768>>,
     <<1770, 1773>>, <<1807, 1807>>, <<1809, 1809>>, <<1840, 1866>>,
     <<1958, 1968>>, <<2027, 2037>>, <<2042, 2042>>, <<2045, 2045>>,
     <<2070, 2093>>, <<2137, 2139>>, <<2184, 2184>>, <<2192, 2193>>,
     <<2200, 2207>>, <<2249, 2306>>, <<2362, 2362>>, <<2364, 2364>>,
     <<2369, 2376>>, <<2381, 2381>>, <<2385, 2391>>, <<2402, 2403>>,
     <<2417, 2417>>, <<2433, 2433>>, <<2492, 2492>>, <<2497, 2500>>,
     <<2509, 2509>>, <<2530, 2531>>, <<2558, 2558>>, <<2561, 2562>>,
     <<2620, 2620>>, <<2625, 2626>>, <<2631, 2632>>, <<2635, 2637>>,
     <<2641, 2641>>, <<2672, 2673>>, <<2677, 2677>>, <<2689, 2690>>,
     <<2748, 2748>>, <<2753, 2757>>, <<2759, 2760>>, <<2765, 2765>>,
     <<2786, 2787>>, <<2810, 2815>>, <<2817, 2817>>, <<2876, 2876>>,
     <<2879, 2879>>, <<2881, 2884>>, <<2893, 2893>>, <<2901, 2902>>,
     <<2914, 2915>>, <<2946, 2946>>, <<3008, 3008>>, <<3021, 3021>>,
     <<3072, 3072>>, <<3076, 3076>>, <<3132, 3132>>, <<3134, 3136>>,
     <<3142, 3144>>, <<3146, 3149>>, <<3157, 3158>>, <<3170, 3171>>,
     <<3201, 3201>>, <<3260, 3260>>, <<3263, 3263>>, <<3270, 3270>>,
     <<3276, 3277>>, <<3298, 3299>>, <<3328, 3329>>, <<3387, 3388>>,
     <<3393, 3396>>, <<3405, 3405>>, <<3426, 3427>>, <<3457, 3457>>,
     <<3530, 3530>>, <<3538, 3540>>, <<3542, 3542>>, <<3633, 3633>>,
     <<3636, 3642>>, <<3654, 3662>>, <<3761, 3761>>, <<3764, 3772>>,
     <<3782, 3782>>, <<3784, 3789>>, <<3864, 3865>>, <<3893, 3893>>,
     <<3895, 3895>>, <<3897, 3897>>, <<3953, 3966>>, <<3968, 3972>>,
     <<3974, 3975>>, <<3981, 3991>>, <<3993, 4028>>, <<4038, 4038>>,
     <<4141, 4144>>, <<4146, 4151>>, <<4153, 4154>>, <<4157, 4158>>,
     <<4184, 4185>>, <<4190, 4192>>, <<4209, 4212>>, <<4226, 4226>>,
     <<4229, 4230>>, <<4237, 4237>>, <<4253, 4253>>, <<4348, 4348>>,
     <<4957, 4959>>, <<5906, 5908>>, <<5938, 5939>>, <<5970, 5971>>,
     <<6002, 6003>>, <<6068, 6069>>, <<6071, 6077>>, <<6086, 6086>>,
     <<6089, 6099>>, <<6103, 6103>>, <<6109, 6109>>, <<6155, 6159>>,
     <<6211, 6211>>, <<6277, 6278>>, <<6313, 6313>>, <<6432, 6434>>,
     <<6439, 6440>>, <<6450, 6450>>, <<6457, 6459>>, <<6679, 6680>>,
     <<6683, 6683>>, <<6742, 6742>>, <<6744, 6750>>, <<6752, 6752>>,
     <<6754, 6754>>, <<6757, 6764>>, <<6771, 6780>>, <<6783, 6783>>,
     <<6823, 6823>>, <<6832, 6862>>, <<6912, 6915>>, <<6964, 6964>>,
     <<6966, 6970>>, <<6972, 6972>>, <<6978, 6978>>, <<7019, 7027>>,
     <<7040, 7041>>, <<7074, 7077>>, <<7080, 7081>>, <<7083, 7085>>,
     <<7142, 7142>>, <<7144, 7145>>, <<7149, 7149>>, <<7151, 7153>>,
     <<7212, 7219>>, <<7222, 7223>>, <<7288, 7293>>, <<7376, 7378>>,
     <<7380, 7392>>, <<7394, 7400>>, <<7405, 7405>>, <<7412, 7412>>,
     <<7416, 7417>>, <<7468, 7530>>, <<7544, 7544>>, <<7579, 7679>>,
     <<8125, 8125>>, <<8127, 8129>>, <<8141, 8143>>, <<8157, 8159>>,
     <<8173, 8175>>, <<8189, 8190>>, <<8203, 8207>>, <<8216, 8217>>,
     <<8228, 8228>>, <<8231, 8231>>, <<8234, 8238>>, <<8288, 8292>>,
     <<8294, 8303>>, <<8305, 8305>>, <<8319, 8319>>, <<8336, 8348>>,
     <<8400, 8432>>, <<11388, 11389>>, <<11503, 11505>>, <<11631, 11631>>,
     <<11647, 11647>>, <<11744, 11775>>, <<11823, 11823>>, <<12293, 12293>>,
     <<12330, 12333>>, <<12337, 12341>>, <<12347, 12347>>, <<12441, 12446>>,
     <<12540, 12542>>, <<40981, 40981>>, <<42232, 42237>>, <<42508, 42508>>,
     <<42607, 42610>>, <<42612, 42621>>, <<42623, 42623>>, <<42652, 42655>>,
     <<42736, 42737>>, <<42752, 42785>>, <<42864, 42864>>, <<42888, 42890>>,
     <<42994, 42996>>, <<43000, 43001>>, <<43010, 43010>>, <<43014, 43014>>,
     <<43019, 43019>>, <<43045, 43046>>, <<43052, 43052>>, <<43204, 43205>>,
     <<43232, 43249>>, <<43263, 43263>>, <<43302, 43309>>, <<43335, 43345>>,
     <<43392, 43394>>, <<43443, 43443>>, <<43446, 43449>>, <<43452, 43453>>,
     <<43471, 43471>>, <<43493, 43494>>, <<43561, 43566>>, <<43569, 43570>>,
     <<43573, 43574>>, <<43587, 43587>>, <<43596, 43596>>, <<43632, 43632>>,
     <<43644, 43644>>, <<43696, 43696>>, <<43698, 43700>>, <<43703, 43704>>,
     <<43710, 43711>>, <<43713, 43713>>, <<43741, 43741>>, <<43756, 43757>>,
     <<43763, 43764>>, <<43766, 43766>>, <<43867, 43871>>, <<43881, 43883>>,
     <<44005, 44005>>, <<44008, 44008>>, <<44013, 44013>>, <<64286, 64286>>,
     <<64434, 64450>>, <<65024, 65039>>, <<65043, 65043>>, <<65056, 65071>>,
     <<65106, 65106>>, <<65109, 65109>>, <<65279, 65279>>, <<65287, 65287>>,
     <<65294, 65294>>, <<65306, 65306>>, <<65342, 65342>>, <<65344, 65344>>,
     <<65392, 65392>>, <<65438, 65439>>, <<65507, 65507>>, <<65529, 65531>>,
     <<66045, 66045>>, <<66272, 66272>>, <<66422, 66426>>, <<67456, 67461>>,
     <<67463, 67504>>, <<67506, 67514>>, <<68097, 68099>>, <<68101, 68102>>,
     <<68108, 68111>>, <<68152, 68154>>, <<68159, 68159>>, <<68325, 68326>>,
     <<68900, 68903>>, <<69291, 69292>>, <<69446, 69456>>, <<69506, 69509>>,
     <<69633, 69633>>, <<69688, 69702>>, <<69744, 69744>>, <<69747, 69748>>,
     <<69759, 69761>>, <<69811, 69814>>, <<69817, 69818>>, <<69821, 69821>>,
     <<69826, 69826>>, <<69837, 69837>>, <<69888, 69890>>, <<69927, 69931>>,
     <<69933, 69940>>, <<70003, 70003>>, <<70016, 70017>>, <<70070, 70078>>,
     <<70089, 70092>>, <<70095, 70095>>, <<70191, 70193>>, <<70196, 70196>>,
     <<70198, 70199>>, <<70206, 70206>>, <<70367, 70367>>, <<70371, 70378>>,
     <<70400, 70401>>, <<70459, 70460>>, <<70464, 70464>>, <<70502, 70508>>,
     <<70512, 70516>>, <<70712, 70719>>, <<70722, 70724>>, <<70726, 70726>>,
     <<70750, 70750>>, <<70835, 70840>>, <<70842, 70842>>, <<70847, 70848>>,
     <<70850, 70851>>, <<71090, 71093>>, <<71100, 71101>>, <<71103, 71104>>,
     <<71132, 71133>>, <<71219, 71226>>, <<71229, 71229>>, <<71231, 71232>>,
     <<71339, 71339>>, <<71341, 71341>>, <<71344, 71349>>, <<71351, 71351>>,
     <<71453, 71455>>, <<71458, 71461>>, <<71463, 71467>>, <<71727, 71735>>,
     <<71737, 71738>>, <<71995, 71996>>, <<71998, 71998>>, <<72003, 72003>>,
     <<72148, 72151>>, <<72154, 72155>>, <<72160, 72160>>, <<72193, 72202>>,
     <<72243, 72248>>, <<72251, 72254>>, <<72263, 72263>>, <<72273, 72278>>,
     <<72281, 72283>>, <<72330, 72342>>, <<72344, 72345>>, <<72752, 72758>>,
     <<72760, 72765>>, <<72767, 72767>>, <<72850, 72871>>, <<72874, 72880>>,
     <<72882, 72883>>, <<72885, 72886>>, <<73009, 73014>>, <<73018, 73018>>,
     <<73020, 73021>>, <<73023, 73029>>, <<73031, 73031>>, <<73104, 73105>>,
     <<73109, 73109>>, <<73111, 73111>>, <<73459, 73460>>, <<78896, 78904>>,
     <<92912, 92916>>, <<92976, 92982>>, <<92992, 92995>>, <<94031, 94031>>,
     <<94095, 94111>>, <<94176, 94177>>, <<94179, 94180>>, <<110576, 110579>>,
     <<110581, 110587>>, <<110589, 110590>>, <<113821, 113822>>,
     <<113824, 113827>>, <<118528, 118573>>, <<118576, 118598>>,
     <<119143, 119145>>, <<119155, 119170>>, <<119173, 119179>>,
     <<119210, 119213>>, <<119362, 119364>>, <<121344, 121398>>,
     <<121403, 121452>>, <<121461, 121461>>, <<121476, 121476>>,
     <<121499, 121503>>, <<121505, 121519>>, <<122880, 122886>>,
     <<122888, 122904>>, <<122907, 122913>>, <<122915, 122916>>,
     <<122918, 122922>>, <<123184, 123197>>, <<123566, 123566>>,
     <<123628, 123631>>, <<125136, 125142>>, <<125252, 125259>>,
     <<127995, 127999>>, <<917505, 917505>>, <<917536, 917631>>,
     <<917760, 917999>> >>

IsCaseIgnorable(c) == InRanges(c, CaseIgnorableRanges)

\* the characters that are Cased and not Case_Ignorable
CasedRanges ==
  << <<65, 90>>, <<97, 122>>, <<170, 170>>, <<181, 181>>, <<186, 186>>,
     <<192, 214>>, <<216, 246>>, <<248, 442>>, <<444, 447>>, <<452, 659>>,
     <<661, 687>>, <<880, 883>>, <<886, 887>>, <<891, 893>>, <<895, 895>>,
     <<902, 902>>, <<904, 906>>, <<908, 908>>, <<910, 929>>, <<931, 1013>>,
     <<1015, 1153>>, <<1162, 1327>>, <<1329, 1366>>, <<1376, 1416>>,
     <<4256, 4293>>, <<4295, 4295>>, <<4301, 4301>>, <<4304, 4346>>,
     <<4349, 4351>>, <<5024, 5109>>, <<5112, 5117>>, <<7296, 7304>>,
     <<7312, 7354>>, <<7357, 7359>>, <<7424, 7467>>, <<7531, 7543>>,
     <<7545, 7578>>, <<7680, 7957>>, <<7960, 7965>>, <<7968, 8005>>,
     <<8008, 8013>>, <<8016, 8023>>, <<8025, 8025>>, <<8027, 8027>>,
     <<8029, 8029>>, <<8031, 8061>>, <<8064, 8116>>, <<8118, 8124>>,
     <<8126, 8126>>, <<8130, 8132>>, <<8134, 8140>>, <<8144, 8147>>,
     <<8150, 8155>>, <<8160, 8172>>, <<8178, 8180>>, <<8182, 8188>>,
     <<8450, 8450>>, <<8455, 8455>>, <<8458, 8467>>, <<8469, 8469>>,
     <<8473, 8477>>, <<8484, 8484>>, <<8486, 8486>>, <<8488, 8488>>,
     <<8490, 8493>>, <<8495, 8500>>, <<8505, 8505>>, <<8508, 8511>>,
     <<8517, 8521>>, <<8526, 8526>>, <<8544, 8575>>, <<8579, 8580>>,
     <<9398, 9449>>, <<11264, 11387>>, <<11390, 11492>>, <<11499, 11502>>,
     <<11506, 11507>>, <<11520, 11557>>, <<11559, 11559>>, <<11565, 11565>>,
     <<42560, 42605>>, <<42624, 42651>>, <<42786, 42863>>, <<42865, 42887>>,
     <<42891, 42894>>, <<42896, 42954>>, <<42960, 42961>>, <<42963, 42963>>,
     <<42965, 42969>>, <<42997, 42998>>, <<43002, 43002>>, <<43824, 43866>>,
     <<43872, 43880>>, <<43888, 43967>>, <<64256, 64262>>, <<64275, 64279>>,
     <<65313, 65338>>, <<65345, 65370>>, <<66560, 66639>>, <<66736, 66771>>,
     <<66776, 66811>>, <<66928, 66938>>, <<66940, 66954>>, <<66956, 66962>>,
     <<66964, 66965>>, <<66967, 66977>>, <<66979, 66993>>, <<66995, 67001>>,
     <<67003, 67004>>, <<68736, 68786>>, <<68800, 68850>>, <<71840, 71903>>,
     <<93760, 93823>>, <<119808, 119892>>, <<119894, 119964>>,
     <<119966, 119967>>, <<119970, 119970>>, <<119973, 119974>>,
     <<119977, 119980>>, <<119982, 119993>>, <<119995, 119995>>,
     <<119997, 120003>>, <<120005, 120069>>, <<120071, 120074>>,
     <<120077, 120084>>, <<120086, 120092>>, <<120094, 120121>>,
     <<120123, 120126>>, <<120128, 120132>>, <<120134, 120134>>,
     <<120138, 120144>>, <<120146, 120485>>, <<120488, 120512>>,
     <<120514, 120538>>, <<120540, 120570>>, <<120572, 120596>>,
     <<120598, 120628>>, <<120630, 120654>>, <<120656, 120686>>,
     <<120688, 120712>>, <<120714, 120744>>, <<120746, 120770>>,
     <<120772, 120779>>, <<122624, 122633>>, <<122635, 122654>>,
     <<125184, 125251>>, <<127280, 127305>>, <<127312, 127337>>,
     <<127344, 127369>> >>

IsCased(c) == InRanges(c, CasedRanges)

\* the last position before i, and the first after i, whose character the
\* final-sigma rule does not skip; 0 and Len(s) + 1 when there is none
LastBefore(s, i) ==
  LET J == {j \in 1..(i - 1) : ~IsCaseIgnorable(s[j])}
  IN IF J = {} THEN 0 ELSE CHOOSE j \in J : \A k \in J : k <= j

FirstAfter(s, i) ==
  LET J == {j \in (i + 1)..Len(s) : ~IsCaseIgnorable(s[j])}
  IN IF J = {} THEN Len(s) + 1 ELSE CHOOSE j \in J : \A k \in J : j <= k

\* whether the capital sigma at s[i] ends a word: a cased character comes
\* before it and none comes after it
FinalSigma(s, i) ==
  /\ LastBefore(s, i) > 0
  /\ IsCased(s[LastBefore(s, i)])
  /\ FirstAfter(s, i) > Len(s) \/ ~IsCased(s[FirstAfter(s, i)])

\* what str.lower() puts for s[i]: U+0130 becomes two characters, a capital
\* sigma the final or the medial small sigma
LowerAt(s, i) ==
  IF s[i] = 304 THEN <<105, 775>>
  ELSE IF s[i] = 931 THEN <<IF FinalSigma(s, i) THEN 962 ELSE 963>>
  ELSE <<LowerChar(s[i])>>

RECURSIVE LowerRange(_, _, _)
LowerRange(s, lo, hi) ==
  IF lo > hi THEN <<>>
  ELSE IF lo = hi THEN LowerAt(s, lo)
  ELSE LowerRange(s, lo, (lo + hi) \div 2)
       \o LowerRange(s, (lo + hi) \div 2 + 1, hi)

\* str.lower(): one character for each character of s, unless U+0130 occurs
Lower(s) ==
  IF \A i \in 1..Len(s) : s[i] # 304
  THEN [i \in 1..Len(s) |-> LowerAt(s, i)[1]]
  ELSE LowerRange(s, 1, Len(s))

\* the positions 1..Len(s) in order
Positions(s) == [i \in 1..Len(s) |-> i]

\* str.split(): the maximal runs of non-whitespace characters, in order.
\* A run starts at a character that is not white space and follows white
\* space or nothing, and ends at one that white space or nothing follows.
WordStarts(s) ==
  SelectSeq(Positions(s),
            LAMBDA i : ~IsSpace(s[i]) /\ (i = 1 \/ IsSpace(s[i - 1])))

WordEnds(s) ==
  SelectSeq(Positions(s),
            LAMBDA i : ~IsSpace(s[i]) /\ (i = Len(s) \/ IsSpace(s[i + 1])))

Split(s) ==
  LET starts == WordStarts(s)
      ends == WordEnds(s)
  IN [k \in 1..Len(starts) |-> SubSeq(s, starts[k], ends[k])]

\* Python's `k in d` on two strings
IsSubstring(k, d) ==
  \E i \in 0..(Len(d) - Len(k)) : SubSeq(d, i + 1, i + Len(k)) = k

\* words used to build descriptions and queries
\* "knee"
wKnee == <<107, 110, 101, 101>>

\* "KNEE"
wKneeUp == <<75, 78, 69, 69>>

\* "xray"
wXray == <<120, 114, 97, 121>>

\* "brace"
wBrace == <<98, 114, 97, 99, 101>>

\* "with"
wWith == <<119, 105, 116, 104>>

\* "the"
wThe == <<116, 104, 101>>

\* " "
SP == <<32>>

(***************************************************************************)
(* Natural numbers of any size: the sequence of their digits in base       *)
(* 2^15, least significant first, without a zero at the end; <<>> is 0.    *)
(***************************************************************************)
Base == 32768

RECURSIVE BigOf(_)
BigOf(n) == IF n = 0 THEN <<>> ELSE <<n % Base>> \o BigOf(n \div Base)

\* the place of the highest digit of a that is not 0, 0 when there is none
Top(a) ==
  IF \A i \in 1..Len(a) : a[i] = 0 THEN 0
  ELSE CHOOSE i \in 1..Len(a) : a[i] # 0 /\ \A j \in (i + 1)..Len(a) : a[j] = 0

\* a without the zeros at its end
Trim(a) == SubSeq(a, 1, Top(a))

Limb(a, i) == IF i <= Len(a) THEN a[i] ELSE 0

\* -1, 0 or 1 as a < b, a = b or a > b: the highest digit that differs decides
BigCmp(a, b) ==
  IF Len(a) < Len(b) THEN 0 - 1
  ELSE IF Len(a) > Len(b) THEN 1
  ELSE IF a = b THEN 0
  ELSE LET i == CHOOSE i \in 1..Len(a) :
                  a[i] # b[i] /\ \A j \in (i + 1)..Len(a) : a[j] = b[j]
       IN IF a[i] < b[i] THEN 0 - 1 ELSE 1

\* The digits lo..hi of a result d and the carry c out of them, for a carry
\* c coming in at lo: the lower half is worked before the upper half.
RECURSIVE AddRange(_, _, _, _, _)
AddRange(a, b, lo, hi, c) ==
  IF lo = hi
  THEN [d |-> <<(Limb(a, lo) + Limb(b, lo) + c) % Base>>,
        c |-> (Limb(a, lo) + Limb(b, lo) + c) \div Base]
  ELSE LET low == AddRange(a, b, lo, (lo + hi) \div 2, c)
           high == AddRange(a, b, (lo + hi) \div 2 + 1, hi, low.c)
       IN [d |-> low.d \o high.d, c |-> high.c]

Longer(a, b) == IF Len(a) > Len(b) THEN Len(a) ELSE Len(b)

BigAdd(a, b) ==
  IF Len(a) = 0 THEN b
  ELSE IF Len(b) = 0 THEN a
  ELSE LET s == AddRange(a, b, 1, Longer(a, b), 0) IN s.d \o BigOf(s.c)

RECURSIVE SubRange(_, _, _, _, _)
SubRange(a, b, lo, hi, c) ==
  IF lo = hi
  THEN [d |-> <<(a[lo] - Limb(b, lo) - c + Base) % Base>>,
        c |-> IF a[lo] - Limb(b, lo) - c < 0 THEN 1 ELSE 0]
  ELSE LET low == SubRange(a, b, lo, (lo + hi) \div 2, c)
           high == SubRange(a, b, (lo + hi) \div 2 + 1, hi, low.c)
       IN [d |-> low.d \o high.d, c |-> high.c]

\* a - b for a >= b
BigSub(a, b) == IF Len(a) = 0 THEN <<>> ELSE Trim(SubRange(a, b, 1, Len(a), 0).d)

RECURSIVE MulRange(_, _, _, _, _)
MulRange(a, k, lo, hi, c) ==
  IF lo = hi
  THEN [d |-> <<(a[lo] * k + c) % Base>>, c |-> (a[lo] * k + c) \div Base]
  ELSE LET low == MulRange(a, k, lo, (lo + hi) \div 2, c)
           high == MulRange(a, k, (lo + hi) \div 2 + 1, hi, low.c)
       IN [d |-> low.d \o high.d, c |-> high.c]

\* a * k + c for 0 <= k, c < 2^15
BigMul(a, k, c) ==
  IF Len(a) = 0 THEN BigOf(c)
  ELSE LET p == MulRange(a, k, 1, Len(a), c) IN Trim(p.d \o BigOf(p.c))

\* The digits lo..hi of a divided by k, with the remainder r < k of the
\* digits above carried in: the upper half is worked before the lower half,
\* and the digits of the quotient q come out the highest first.
RECURSIVE DivRange(_, _, _, _, _)
DivRange(a, k, lo, hi, r) ==
  IF lo = hi
  THEN [q |-> <<(r * Base + a[lo]) \div k>>, r |-> (r * Base + a[lo]) % k]
  ELSE LET high == DivRange(a, k, (lo + hi) \div 2 + 1, hi, r)
           low == DivRange(a, k, lo, (lo + hi) \div 2, high.r)
       IN [q |-> high.q \o low.q, r |-> low.r]

Reverse(s) == [i \in 1..Len(s) |-> s[Len(s) + 1 - i]]

\* the quotient q and the remainder r of a by k, for 0 < k <= 2^15
BigDiv(a, k) ==
  IF Len(a) = 0 THEN [q |-> <<>>, r |-> 0]
  ELSE LET d == DivRange(a, k, 1, Len(a), 0)
       IN [q |-> Trim(Reverse(d.q)), r |-> d.r]

PowersOf2 ==
  <<1, 2, 4, 8, 16, 32, 64, 128, 256, 512, 1024, 2048, 4096, 8192, 16384,
    32768>>

\* 2^n for n <= 15
Pow2(n) == PowersOf2[n + 1]

\* a * 2^b for b < 15: each digit takes the low part of its own product and
\* the high part of the product below it
ShlBits(a, b) ==
  Trim([i \in 1..(Len(a) + 1) |->
          ((Limb(a, i) * Pow2(b)) % Base)
          + (IF i = 1 THEN 0 ELSE (a[i - 1] * Pow2(b)) \div Base)])

\* a * 2^s
Shl(a, s) ==
  IF Len(a) = 0 THEN <<>>
  ELSE [i \in 1..(s \div 15) |-> 0] \o ShlBits(a, s % 15)

\* a \div 2^b for b < 15
ShrBits(a, b) ==
  Trim([i \in 1..Len(a) |->
          (a[i] \div Pow2(b)) + (Limb(a, i + 1) % Pow2(b)) * Pow2(15 - b)])

\* a \div 2^s
Shr(a, s) ==
  IF s \div 15 >= Len(a) THEN <<>>
  ELSE ShrBits(SubSeq(a, s \div 15 + 1, Len(a)), s % 15)

\* the binary digit of a at 2^i
Bit(a, i) == (Limb(a, i \div 15 + 1) \div Pow2(i % 15)) % 2

\* whether a has a binary digit 1 below 2^i
AnyBelow(a, i) ==
  \/ \E j \in 1..(i \div 15) : Limb(a, j) # 0
  \/ Limb(a, i \div 15 + 1) % Pow2(i % 15) # 0

\* the number of binary digits of a digit n
BitLenOf(n) == CHOOSE k \in 0..15 : n < Pow2(k) /\ (k = 0 \/ Pow2(k - 1) <= n)

\* the number of binary digits of a
BitLen(a) == IF Len(a) = 0 THEN 0 ELSE 15 * (Len(a) - 1) + BitLenOf(a[Len(a)])

PowersOf5 == <<1, 5, 25, 125, 625, 3125, 15625>>

\* 5^n for n <= 6
Pow5(n) == PowersOf5[n + 1]

\* a * 5^x, by halves of x down to 5^6
RECURSIVE TimesPow5(_, _)
TimesPow5(a, x) ==
  IF x <= 6 THEN BigMul(a, Pow5(x), 0)
  ELSE LET half == TimesPow5(a, x \div 2)
       IN IF Len(half) = 0 THEN <<>> ELSE TimesPow5(half, x - x \div 2)

\* a \div 5^k, and whether a remainder was dropped (inexact carried in)
RECURSIVE DivPow5(_, _, _)
DivPow5(a, k, inexact) ==
  IF k <= 6
  THEN LET d == BigDiv(a, Pow5(k))
       IN [q |-> d.q, inexact |-> inexact \/ d.r # 0]
  ELSE LET half == DivPow5(a, k \div 2, inexact)
       IN IF Len(half.q) = 0 THEN half
          ELSE DivPow5(half.q, k - k \div 2, half.inexact)

(***************************************************************************)
(* Python floats: IEEE 754 doubles.  A finite value is (-1)^neg * m * 2^e  *)
(* with m a natural number as above, odd or 0 (then e = 0), so equal       *)
(* numbers other than 0.0 and -0.0 are equal records.  Results are rounded *)
(* to 53 binary digits, ties to even, down to 2^-1074, and overflow to     *)
(* inf.                                                                    *)
(***************************************************************************)
Double(neg, m, e) == [kind |-> "finite", neg |-> neg, m |-> m, e |-> e]

\* float('inf') for sign = 1, float('-inf') for sign = -1
Inf(sign) == [kind |-> "inf", neg |-> sign < 0, m |-> <<>>, e |-> 0]

NaN == [kind |-> "nan", neg |-> FALSE, m |-> <<>>, e |-> 0]

Zero == Double(FALSE, <<>>, 0)

\* the number of binary digits 0 at the low end of a, for a > 0
TrailingZeros(a) ==
  LET i == CHOOSE i \in 1..Len(a) : a[i] # 0 /\ \A j \in 1..(i - 1) : a[j] = 0
  IN 15 * (i - 1) + (CHOOSE z \in 0..14 : a[i] % Pow2(z + 1) = Pow2(z))

OddAt(neg, m, e, z) == Double(neg, Shr(m, z), e + z)

\* m * 2^e for m > 0, with m made odd
Odd(neg, m, e) == OddAt(neg, m, e, TrailingZeros(m))

\* the double m * 2^e for m of at most 53 binary digits and e >= -1074
Finite(neg, m, e) ==
  IF Len(m) = 0 THEN Double(neg, <<>>, 0)
  ELSE IF BitLen(m) + e > 1024 THEN Inf(IF neg THEN 0 - 1 ELSE 1)
  ELSE Odd(neg, m, e)

\* whether n rounds up to (q + 1) * 2^k, for q = n \div 2^k and k > 0: the
\* part dropped is above the half of 2^k, or is the half and q is odd
RoundsUp(n, q, k) ==
  Bit(n, k - 1) = 1 /\ (AnyBelow(n, k - 1) \/ Limb(q, 1) % 2 = 1)

\* n * 2^e rounded to a multiple of 2^(e + k), for k > 0
RoundedAt(neg, n, e, k, q) ==
  Finite(neg, IF RoundsUp(n, q, k) THEN BigAdd(q, <<1>>) ELSE q, e + k)

\* the number of low binary digits n * 2^e has to lose, for n of len
\* binary digits
Excess(len, e) == IF e + len - 53 > 0 - 1074 THEN len - 53 ELSE 0 - 1074 - e

RoundedBy(neg, n, e, k) ==
  IF k <= 0 THEN Finite(neg, n, e) ELSE RoundedAt(neg, n, e, k, Shr(n, k))

\* the double nearest to n * 2^e
Rounded(neg, n, e) == RoundedBy(neg, n, e, Excess(BitLen(n), e))

\* a number of binary digits that holds 5^k
Pow5Bits(k) == (k * 2322) \div 1000 + 1

\* the double nearest to d * 2^(-k) / 5^k: the quotient is taken with at
\* least 55 binary digits, and a dropped remainder is kept as one more digit
Quotient(neg, d, k, s) ==
  LET qr == DivPow5(Shl(d, s), k, FALSE)
  IN Rounded(neg, BigMul(qr.q, 2, IF qr.inexact THEN 1 ELSE 0), 0 - s - k - 1)

\* the double nearest to d * 10^x = d * 5^x * 2^x; beyond 2^1024 it is
\* inf, below 2^-1075 it is zero (log2(10) lies between 3.3219 and 3.3220)
NearestDouble(neg, d, x) ==
  IF Len(d) = 0 THEN Double(neg, <<>>, 0)
  ELSE IF x >= 0
       THEN (IF x > 400 \/ 10000 * (BitLen(d) - 1) + 33219 * x >= 10240000
             THEN Inf(IF neg THEN 0 - 1 ELSE 1)
             ELSE Rounded(neg, TimesPow5(d, x), x))
  ELSE IF 3 * x < 0 - 1100 - BitLen(d)
          \/ 10000 * BitLen(d) + 33219 * x < 0 - 10750000
       THEN Double(neg, <<>>, 0)
  ELSE Quotient(neg, d, 0 - x,
                IF 56 + Pow5Bits(0 - x) > BitLen(d)
                THEN 56 + Pow5Bits(0 - x) - BitLen(d) ELSE 0)

\* the float of the decimal numeral of n hundredths, as json.load and
\* float() read it
FromCents(n) == NearestDouble(n < 0, BigOf(IF n < 0 THEN 0 - n ELSE n), 0 - 2)

\* -1, 0 or 1 as |a| < |b|, |a| = |b| or |a| > |b|, for finite a and b
Magnitudes(a, b) ==
  IF BitLen(a.m) + a.e < BitLen(b.m) + b.e THEN 0 - 1
  ELSE IF BitLen(a.m) + a.e > BitLen(b.m) + b.e THEN 1
  ELSE IF a.e < b.e THEN BigCmp(a.m, Shl(b.m, b.e - a.e))
  ELSE BigCmp(Shl(a.m, a.e - b.e), b.m)

\* -1, 0 or 1 as a is below, at or above zero, for a not nan
SignOf(a) ==
  IF a.kind = "finite" /\ Len(a.m) = 0 THEN 0 ELSE IF a.neg THEN 0 - 1 ELSE 1

\* a < b on floats: every comparison with nan is False
FloatLess(a, b) ==
  IF a.kind = "nan" \/ b.kind = "nan" THEN FALSE
  ELSE IF SignOf(a) # SignOf(b) THEN SignOf(a) < SignOf(b)
  ELSE IF SignOf(a) = 0 \/ (a.kind = "inf" /\ b.kind = "inf") THEN FALSE
  ELSE IF a.kind = "inf" THEN a.neg
  ELSE IF b.kind = "inf" THEN ~b.neg
  ELSE IF a.neg THEN Magnitudes(a, b) > 0
  ELSE Magnitudes(a, b) < 0

DifferenceBy(neg, n, p, e, c) ==
  IF c = 0 THEN Zero
  ELSE IF c > 0 THEN Rounded(neg, BigSub(n, p), e)
  ELSE Rounded(~neg, BigSub(p, n), e)

\* n * 2^e - p * 2^e with the sign of the larger, 0.0 when they are equal
Difference(neg, n, p, e) == DifferenceBy(neg, n, p, e, BigCmp(n, p))

\* a + b for finite a and b, both taken at the exponent e
SumAt(a, b, e) ==
  IF a.neg = b.neg
  THEN Rounded(a.neg, BigAdd(Shl(a.m, a.e - e), Shl(b.m, b.e - e)), e)
  ELSE Difference(a.neg, Shl(a.m, a.e - e), Shl(b.m, b.e - e), e)

\* a + b on floats
FloatAdd(a, b) ==
  IF a.kind = "nan" \/ b.kind = "nan" THEN NaN
  ELSE IF a.kind = "inf"
       THEN (IF b.kind = "inf" /\ b.neg # a.neg THEN NaN ELSE a)
  ELSE IF b.kind = "inf" THEN b
  ELSE IF Len(a.m) = 0 /\ Len(b.m) > 0 THEN b
  ELSE IF Len(b.m) = 0 /\ Len(a.m) > 0 THEN a
  ELSE IF BitLen(b.m) + b.e + 60 < BitLen(a.m) + a.e THEN a
  ELSE IF BitLen(a.m) + a.e + 60 < BitLen(b.m) + b.e THEN b
  ELSE SumAt(a, b, IF a.e < b.e THEN a.e ELSE b.e)

(***************************************************************************)
(* The disclosure document (assets/ucsf_standard_charges.json).            *)
(* A JSON value that is not an object where the loader calls .get on it    *)
(* has isdict = FALSE.                                                     *)
(***************************************************************************)
CodeInfo(t, c) == [isdict |-> TRUE, type |-> t, code |-> c]

BadCodeInfo == [isdict |-> FALSE, type |-> "", code |-> None]

Variant(g, d, s, b) ==
  [gross_charge |-> g, discounted_cash |-> d, setting |-> s,
   billing_class |-> b, modifiers |-> None]

Record(d, ci, sc) ==
  [isdict |-> TRUE, description |-> d, code_information |-> ci,
   standard_charges |-> sc]

BadRecord ==
  [isdict |-> FALSE, description |-> None, code_information |-> <<>>,
   standard_charges |-> <<>>]

\* a price of n cents as the document holds it
Price(n) == Some(FromCents(n))

vOut100 == Variant(Price(10000), Price(8000), Some("outpatient"), Some("facility"))
vIn50 == Variant(Price(5000), None, Some("inpatient"), Some("facility"))
vBoth0 == Variant(Price(0), None, Some("both"), Some("professional"))
vNoPrice == Variant(None, Price(2000), Some("outpatient"), Some("professional"))
vBoth20 == Variant(Price(2000), None, Some("both"), Some("facility"))
vNoSetting == Variant(Price(7000), None, None, None)

\* json.load reads the literal NaN as float('nan')
vNaN == Variant(Some(NaN), None, Some("both"), Some("facility"))

EightVariants ==
  <<vOut100, vIn50, vBoth20, vNoSetting, vOut100, vBoth20, vOut100, vBoth20>>

rKneeXray ==
  Record(Some(wKneeUp \o SP \o wXray),
         <<CodeInfo("HCPCS", Some("A")), CodeInfo("RC", Some("r1"))>>,
         <<vOut100, vNaN, vIn50>>)

rZeroPrice ==
  Record(Some(wKnee \o SP \o wBrace \o SP \o wXray),
         <<CodeInfo("RC", Some("r2")), CodeInfo("HCPCS", Some("B")),
           CodeInfo("RC", Some("r3"))>>,
         <<vBoth0, vIn50>>)

rTwoCodes ==
  Record(Some(wKnee \o SP \o wWith \o SP \o wBrace),
         <<CodeInfo("CPT", Some("C")), CodeInfo("HCPCS", Some("")),
           CodeInfo("HCPCS", None), CodeInfo("HCPCS", Some("A")),
           CodeInfo("HCPCS", Some("C"))>>,
         EightVariants)

rNoDescription ==
  Record(None,
         <<CodeInfo("HCPCS", Some("B")), CodeInfo("RC", None)>>,
         <<vNoPrice>>)

rBadCodeInfo ==
  Record(Some(wBrace \o SP \o wKnee),
         <<CodeInfo("HCPCS", Some("C")), CodeInfo("RC", Some("r5")),
           BadCodeInfo>>,
         <<vNoSetting>>)

Records ==
  {rKneeXray, rZeroPrice, rTwoCodes, rNoDescription, rBadCodeInfo, BadRecord}

\* the records of the datasets under which requests are analysed
BillRecords == {rKneeXray, rNoDescription}

RECURSIVE SeqsUpTo(_, _)
SeqsUpTo(S, n) ==
  IF n = 0 THEN {<<>>}
  ELSE LET shorter == SeqsUpTo(S, n - 1)
       IN shorter \cup {Append(q, e) : q \in {p \in shorter : Len(p) = n - 1}, e \in S}

\* kind "absent": the file does not exist; "invalid": json.load raises;
\* "notobject": the top-level JSON value is not an object; "json": an object
\* whose standard_charge_information is `data`
Document(k, d) == [kind |-> k, data |-> d]

Documents(R, n) ==
  {Document("absent", <<>>), Document("invalid", <<>>), Document("notobject", <<>>)}
    \cup {Document("json", d) : d \in SeqsUpTo(R, n)}

(***************************************************************************)
(* load_hcpcs_database                                                     *)
(***************************************************************************)
HasCode(db, code) == \E i \in 1..Len(db) : db[i].code = code

EntryOf(db, code) == db[CHOOSE i \in 1..Len(db) : db[i].code = code]

\* next((c.get('code') for c in codes if c.get('type') == 'RC'), None):
\* scans from the first code_info; .get on a non-object raises
RECURSIVE RevenueCode(_, _)
RevenueCode(codes, i) ==
  IF i > Len(codes) THEN [raised |-> FALSE, val |-> None]
  ELSE IF ~codes[i].isdict THEN [raised |-> TRUE, val |-> None]
  ELSE IF codes[i].type = "RC" THEN [raised |-> FALSE, val |-> codes[i].code]
  ELSE RevenueCode(codes, i + 1)

\* HCPCS_DATABASE[code] = e: a dict keeps a key's position when it is reassigned
Store(db, code, e) ==
  IF HasCode(db, code)
  THEN [i \in 1..Len(db) |-> IF db[i].code = code THEN e ELSE db[i]]
  ELSE Append(db, e)

NotIndexedNever(db, code) == TRUE

\* `code not in HCPCS_DATABASE` (line 112)
NotIndexed(db, code) == ~HasCode(db, code)

\* the inner loop over one record's code_information, from position i
RECURSIVE IndexCodes(_, _, _)
IndexCodes(db, entry, i) ==
  LET codes == entry.code_information
  IN IF i > Len(codes) THEN [db |-> db, raised |-> FALSE]
     ELSE IF ~codes[i].isdict THEN [db |-> db, raised |-> TRUE]
     ELSE IF codes[i].type = "HCPCS" /\ TruthyStr(codes[i].code)
               /\ NotIndexed(db, Val(codes[i].code))
          THEN LET rc == RevenueCode(codes, 1)
               IN IF rc.raised THEN [db |-> db, raised |-> TRUE]
                  ELSE IndexCodes(
                         Store(db, Val(codes[i].code),
                           [description |-> entry.description,
                            code |-> Val(codes[i].code),
                            standard_charges |-> entry.standard_charges,
                            revenue_code |-> rc.val]),
                         entry, i + 1)
          ELSE IndexCodes(db, entry, i + 1)

\* the outer loop over the records, from position r; an exception ends it
RECURSIVE IndexRecords(_, _, _)
IndexRecords(db, data, r) ==
  IF r > Len(data) THEN [db |-> db, raised |-> FALSE]
  ELSE IF ~data[r].isdict THEN [db |-> db, raised |-> TRUE]
  ELSE LET step == IndexCodes(db, data[r], 1)
       IN IF step.raised THEN step ELSE IndexRecords(step.db, data, r + 1)

\* the index after load_hcpcs_database on document d, starting from db;
\* every exception is caught at line 121 and only logged
LoadedDatabase(db, d) ==
  IF d.kind = "json" THEN IndexRecords(db, d.data, 1).db ELSE db

\* whether the try block met an exception (logged, never raised)
LoadFailed(d) ==
  \/ d.kind \in {"invalid", "notobject"}
  \/ d.kind = "json" /\ IndexRecords(<<>>, d.data, 1).raised

NoCall == [op |-> "none"]

load_hcpcs_database ==
  /\ ~loaded
  /\ HCPCS_DATABASE' = LoadedDatabase(HCPCS_DATABASE, doc)
  /\ loaded' = TRUE
  /\ UNCHANGED <<doc, ret, req>>

(***************************************************************************)
(* lookup_hcpcs_code                                                       *)
(***************************************************************************)
LookupLimit == 5

\* the slice s[:n]: the first n elements, all but the last -n for n < 0
Take(s, n) ==
  SubSeq(s, 1, IF n < 0 THEN (IF Len(s) + n < 0 THEN 0 ELSE Len(s) + n)
               ELSE IF Len(s) < n THEN Len(s) ELSE n)

KeepChargeExact(c, setting, billing_class) ==
  /\ ~TruthyStr(setting) \/ c.setting = setting
  /\ ~TruthyStr(billing_class) \/ c.billing_class = billing_class

\* the condition of the list comprehension at lines 153-154
KeepCharge(c, setting, billing_class) ==
  /\ ~TruthyStr(setting) \/ c.setting \in {Some("both"), setting}
  /\ ~TruthyStr(billing_class) \/ c.billing_class = billing_class

\* lines 149-155
FilterCharges(charges, setting, billing_class) ==
  IF TruthyStr(setting) \/ TruthyStr(billing_class)
  THEN SelectSeq(charges, LAMBDA c : KeepCharge(c, setting, billing_class))
  ELSE charges

\* the outcome of lookup_hcpcs_code: a returned dict, or raised = TRUE when
\* an exception leaves the function.  Line 146 slices the entry's description
\* for the log line; the entry always has the key, so None[:60] raises.
LookupResult(db, code, setting, billing_class) ==
  IF ~HasCode(db, code)
  THEN [raised |-> FALSE, found |-> FALSE, code |-> code,
        message |-> "Code not found in UCSF standard charges database"]
  ELSE LET entry == EntryOf(db, code)
           charges == entry.standard_charges
       IN IF IsNone(entry.description)
          THEN [raised |-> TRUE]
          ELSE [raised |-> FALSE, found |-> TRUE, code |-> code,
                description |-> entry.description,
                revenue_code |-> entry.revenue_code,
                standard_charges |->
                  Take(FilterCharges(charges, setting, billing_class), LookupLimit),
                num_charge_variants |-> Len(charges)]

LookupCodes == {"A", "B", "C", "Z"}

LookupSettings == {None, Some(""), Some("outpatient")}

LookupClasses == {None, Some("facility")}

\* ret holds the outcome of the one call under examination: the index has no
\* writer after the load, so a call never changes what a later call returns
lookup_hcpcs_code ==
  /\ loaded
  /\ ret = NoCall
  /\ \E code \in LookupCodes, setting \in LookupSettings, bc \in LookupClasses :
       ret' = [op |-> "lookup", code |-> code, setting |-> setting,
               billing_class |-> bc,
               out |-> LookupResult(HCPCS_DATABASE, code, setting, bc)]
  /\ UNCHANGED <<doc, HCPCS_DATABASE, loaded, req>>

(***************************************************************************)
(* find_similar_cheaper_codes                                              *)
(***************************************************************************)
MinKeywordLen == 3

MinMatches == 2

\* "the", "a", "an", "and", "or", "for", "with", "of", "in", "to", "from"
common_words ==
  { <<116, 104, 101>>, <<97>>, <<97, 110>>, <<97, 110, 100>>, <<111, 114>>,
    <<102, 111, 114>>, <<119, 105, 116, 104>>, <<111, 102>>, <<105, 110>>,
    <<116, 111>>, <<102, 114, 111, 109>> }

\* lines 192-195: a list, one element per kept word, repetitions included
Keywords(description) ==
  LET words == Split(description)
      kept == SelectSeq(words,
                LAMBDA w : Len(w) > MinKeywordLen /\ Lower(w) \notin common_words)
  IN [i \in 1..Len(kept) |-> Lower(kept[i])]

\* line 208: one count per element of the keyword list found in the description
MatchCount(keywords, entry_desc) ==
  Cardinality({i \in 1..Len(keywords) : IsSubstring(keywords[i], entry_desc)})

\* line 219: truthiness of an Optional number: None, 0.0 and -0.0 are falsy
TruthyNum(o) == ~IsNone(o) /\ SignOf(Val(o)) # 0

\* min() over the charges from place i on, best being the least so far,
\* None before the first: the generator of line 218 passes the charges whose
\* gross_charge is truthy, and min() keeps the one it holds unless the next
\* compares less, which a nan never does and nothing does to a nan
RECURSIVE MinFrom(_, _, _)
MinFrom(charges, i, best) ==
  IF i > Len(charges) THEN best
  ELSE IF /\ TruthyNum(charges[i].gross_charge)
          /\ \/ IsNone(best)
             \/ FloatLess(Val(charges[i].gross_charge), Val(best))
  THEN MinFrom(charges, i + 1, charges[i].gross_charge)
  ELSE MinFrom(charges, i + 1, best)

\* what min() returns: its default when the generator passed nothing
MinOrDefault(best) == IF IsNone(best) THEN Inf(1) ELSE Val(best)

\* lines 217-220: the least truthy gross charge in the order of the
\* variants, float('inf') when there is none
MinPrice(charges) == MinOrDefault(MinFrom(charges, 1, None))

\* lines 204-230, from entry i of the dict in insertion order
RECURSIVE ScanEntries(_, _, _, _)
ScanEntries(db, keywords, max_price, i) ==
  IF i > Len(db) THEN <<>>
  ELSE LET entry == db[i]
           matches == MatchCount(keywords, Lower(Val(entry.description)))
           min_price == MinPrice(entry.standard_charges)
       IN (IF /\ matches >= MinMatches
              /\ Len(entry.standard_charges) > 0
              /\ FloatLess(min_price, max_price)
           THEN << [code |-> entry.code, description |-> entry.description,
                    min_price |-> min_price, match_score |-> matches,
                    revenue_code |-> entry.revenue_code] >>
           ELSE <<>>)
          \o ScanEntries(db, keywords, max_price, i + 1)

SortsBeforeByPrice(a, b) == FloatLess(a.min_price, b.min_price)

\* the sort key of line 233, (-match_score, min_price), compared as tuples
SortsBefore(a, b) ==
  \/ a.match_score > b.match_score
  \/ a.match_score = b.match_score /\ FloatLess(a.min_price, b.min_price)

\* list.sort is stable: x goes after every element that does not sort after it
RECURSIVE InsertSorted(_, _)
InsertSorted(sorted, x) ==
  IF Len(sorted) = 0 THEN <<x>>
  ELSE IF SortsBefore(x, sorted[1]) THEN <<x>> \o sorted
  ELSE <<sorted[1]>> \o InsertSorted(Tail(sorted), x)

RECURSIVE SortSimilar(_)
SortSimilar(s) ==
  IF Len(s) = 0 THEN <<>>
  ELSE InsertSorted(SortSimilar(SubSeq(s, 1, Len(s) - 1)), s[Len(s)])

\* the outcome of find_similar_cheaper_codes; line 205 calls .lower() on the
\* description of every entry, which raises on an entry whose description is None
SimilarResult(db, description, max_price, limit) ==
  IF Len(description) = 0 THEN [raised |-> FALSE, result |-> <<>>]
  ELSE LET keywords == Keywords(description)
       IN IF Len(keywords) = 0 THEN [raised |-> FALSE, result |-> <<>>]
          ELSE IF \E i \in 1..Len(db) : IsNone(db[i].description)
          THEN [raised |-> TRUE, result |-> <<>>]
          ELSE [raised |-> FALSE,
                result |-> Take(SortSimilar(ScanEntries(db, keywords, max_price, 1)),
                                limit)]

\* the separators are a tab (9), a carriage return (13) and a no-break
\* space (160)
Queries ==
  { <<>>,
    wThe \o SP \o wKnee,
    wKnee \o SP \o wKnee,
    wKneeUp \o <<9>> \o wXray,
    wKnee \o SP \o wWith \o SP \o wBrace,
    wBrace \o SP \o <<13>> \o wXray \o <<160>> \o wKnee }

Ceilings == {FromCents(2000), FromCents(5001), FromCents(20000)}

\* the limits of a call: the slice of line 238 takes a negative one too
Limits == (0 - MaxLimit)..MaxLimit

find_similar_cheaper_codes ==
  /\ loaded
  /\ ret = NoCall
  /\ \E description \in Queries, max_price \in Ceilings, limit \in Limits :
       ret' = [op |-> "similar", description |-> description,
               max_price |-> max_price, limit |-> limit,
               out |-> SimilarResult(HCPCS_DATABASE, description, max_price, limit)]
  /\ UNCHANGED <<doc, HCPCS_DATABASE, loaded, req>>

(***************************************************************************)
(* parse_charge.  FloatOf is float() on a string: white space around an    *)
(* optional sign and either "inf", "infinity" or "nan" in any case, or a   *)
(* decimal numeral with an optional exponent, where one underscore may     *)
(* stand between two digits.  A digit is any decimal digit of Unicode.     *)
(***************************************************************************)
\* The decimal digits (Nd): each range starts at a digit zero and holds
\* whole runs of the ten digits.
DecimalRanges ==
  << <<48, 57>>, <<1632, 1641>>, <<1776, 1785>>, <<1984, 1993>>,
     <<2406, 2415>>, <<2534, 2543>>, <<2662, 2671>>, <<2790, 2799>>,
     <<2918, 2927>>, <<3046, 3055>>, <<3174, 3183>>, <<3302, 3311>>,
     <<3430, 3439>>, <<3558, 3567>>, <<3664, 3673>>, <<3792, 3801>>,
     <<3872, 3881>>, <<4160, 4169>>, <<4240, 4249>>, <<6112, 6121>>,
     <<6160, 6169>>, <<6470, 6479>>, <<6608, 6617>>, <<6784, 6793>>,
     <<6800, 6809>>, <<6992, 7001>>, <<7088, 7097>>, <<7232, 7241>>,
     <<7248, 7257>>, <<42528, 42537>>, <<43216, 43225>>, <<43264, 43273>>,
     <<43472, 43481>>, <<43504, 43513>>, <<43600, 43609>>, <<44016, 44025>>,
     <<65296, 65305>>, <<66720, 66729>>, <<68912, 68921>>, <<69734, 69743>>,
     <<69872, 69881>>, <<69942, 69951>>, <<70096, 70105>>, <<70384, 70393>>,
     <<70736, 70745>>, <<70864, 70873>>, <<71248, 71257>>, <<71360, 71369>>,
     <<71472, 71481>>, <<71904, 71913>>, <<72016, 72025>>, <<72784, 72793>>,
     <<73040, 73049>>, <<73120, 73129>>, <<92768, 92777>>, <<92864, 92873>>,
     <<93008, 93017>>, <<120782, 120831>>, <<123200, 123209>>,
     <<123632, 123641>>, <<125264, 125273>>, <<130032, 130041>> >>

IsDigit(c) ==
  IF c < 128 THEN 48 <= c /\ c <= 57 ELSE InRanges(c, DecimalRanges)

\* the value of a decimal digit
DigitVal(c) ==
  IF c < 128 THEN c - 48
  ELSE LET r == CHOOSE i \in 1..Len(DecimalRanges) :
                  DecimalRanges[i][1] <= c /\ c <= DecimalRanges[i][2]
       IN (c - DecimalRanges[r][1]) % 10

\* str.replace(ch, "")
Remove(s, ch) == SelectSeq(s, LAMBDA c : c # ch)

\* s from the first to the last of the places kept, nothing when none is
Between(s, kept) ==
  IF Len(kept) = 0 THEN <<>> ELSE SubSeq(s, kept[1], kept[Len(kept)])

\* str.strip(): s without the white space at its two ends
Strip(s) == Between(s, SelectSeq(Positions(s), LAMBDA i : ~IsSpace(s[i])))

\* the white space float() skips at both ends of its argument: that of
\* str.strip() without the separators U+001C to U+001F
IsFloatSpace(c) == IsSpace(c) /\ ~(28 <= c /\ c <= 31)

FloatStrip(s) ==
  Between(s, SelectSeq(Positions(s), LAMBDA i : ~IsFloatSpace(s[i])))

\* the number acc * 10^(hi - lo + 1) + the digits lo..hi of s, by halves
RECURSIVE DigitsFrom(_, _, _, _)
DigitsFrom(acc, s, lo, hi) ==
  IF lo > hi THEN acc
  ELSE IF lo = hi THEN BigMul(acc, 10, DigitVal(s[lo]))
  ELSE LET low == DigitsFrom(acc, s, lo, (lo + hi) \div 2)
       IN IF Len(low) = 0 THEN DigitsFrom(<<>>, s, (lo + hi) \div 2 + 1, hi)
          ELSE DigitsFrom(low, s, (lo + hi) \div 2 + 1, hi)

\* the natural number a run of digits spells
FromDigits(s) == DigitsFrom(<<>>, s, 1, Len(s))

RECURSIVE DigitsValue(_)
DigitsValue(s) ==
  IF Len(s) = 0 THEN 0
  ELSE 10 * DigitsValue(SubSeq(s, 1, Len(s) - 1)) + DigitVal(s[Len(s)])

HugeExponent == 100000000

\* the number a run of exponent digits spells, HugeExponent for one of more
\* than 8 digits after its leading zeros: no numeral of fewer than 10^7
\* digits has another float with the larger exponent
ExponentValue(s) ==
  LET nonzero == {i \in 1..Len(s) : DigitVal(s[i]) # 0}
  IN IF nonzero = {} THEN 0
     ELSE IF Len(s) - MinOf(nonzero) + 1 > 8 THEN HugeExponent
     ELSE DigitsValue(SubSeq(s, MinOf(nonzero), Len(s)))

\* a run of digits in which single underscores stand between two digits
IsDigitPart(s) ==
  /\ Len(s) > 0
  /\ \A i \in 1..Len(s) :
       \/ IsDigit(s[i])
       \/ /\ s[i] = 95
          /\ 1 < i
          /\ i < Len(s)
          /\ IsDigit(s[i - 1])
          /\ IsDigit(s[i + 1])

\* the outcome of float() on a string it rejects: ValueError
BadFloat == [ok |-> FALSE, val |-> Zero]

\* the value of sign * whole.frac * 10^exponent; each part is empty or a run of
\* digits, and one of them has a digit
FractionOf(whole, frac, sign, exponent) ==
  IF /\ Len(whole) = 0 \/ IsDigitPart(whole)
     /\ Len(frac) = 0 \/ IsDigitPart(frac)
     /\ Len(whole) > 0 \/ Len(frac) > 0
  THEN [ok |-> TRUE,
        val |-> NearestDouble(sign < 0, FromDigits(Remove(whole \o frac, 95)),
                              exponent - Len(Remove(frac, 95)))]
  ELSE BadFloat

\* a numeral without exponent part, with its points at the places `points`:
\* at most one point
PointedOf(mant, sign, exponent, points) ==
  IF Cardinality(points) > 1 THEN BadFloat
  ELSE FractionOf(IF points = {} THEN mant
                  ELSE SubSeq(mant, 1, MinOf(points) - 1),
                  IF points = {} THEN <<>>
                  ELSE SubSeq(mant, MinOf(points) + 1, Len(mant)),
                  sign, exponent)

\* a numeral without exponent part; the point is 46
DecimalOf(mant, sign, exponent) ==
  PointedOf(mant, sign, exponent, {i \in 1..Len(mant) : mant[i] = 46})

\* the run of digits of an exponent, neg for the one after "-"
ExponentDigits(digits, neg) ==
  IF IsDigitPart(digits)
  THEN [ok |-> TRUE,
        val |-> (IF neg THEN 0 - 1 ELSE 1) * ExponentValue(Remove(digits, 95))]
  ELSE [ok |-> FALSE, val |-> 0]

\* whether t starts with a sign, "+" (43) or "-" (45)
HasSign(t) == Len(t) > 0 /\ t[1] \in {43, 45}

\* the text after the "e": an optional sign and a run of digits
ExponentOf(expo) ==
  ExponentDigits(IF HasSign(expo) THEN Tail(expo) ELSE expo,
                 HasSign(expo) /\ expo[1] = 45)

\* a numeral whose exponent part has been read
ScaledOf(mant, sign, exponent) ==
  IF exponent.ok THEN DecimalOf(mant, sign, exponent.val) ELSE BadFloat

\* a numeral with its letters "e" (101) and "E" (69) at the places exps: at
\* most one exponent part
NumeralOf(body, sign, exps) ==
  IF Cardinality(exps) > 1 THEN BadFloat
  ELSE ScaledOf(IF exps = {} THEN body ELSE SubSeq(body, 1, MinOf(exps) - 1),
                sign,
                IF exps = {} THEN [ok |-> TRUE, val |-> 0]
                ELSE ExponentOf(SubSeq(body, MinOf(exps) + 1, Len(body))))

\* the letters A to Z of s made small: float() matches "inf", "infinity"
\* and "nan" without regard to the case of ASCII letters
LowerASCII(s) ==
  [i \in 1..Len(s) |-> IF 65 <= s[i] /\ s[i] <= 90 THEN s[i] + 32 ELSE s[i]]

\* "inf"
wInf == <<105, 110, 102>>

\* "infinity"
wInfinity == <<105, 110, 102, 105, 110, 105, 116, 121>>

\* "nan"
wNan == <<110, 97, 110>>

\* the text after the sign, and that text with its ASCII letters made small:
\* "inf", "infinity" or "nan" in any case, or a numeral
NamedOf(body, sign, small) ==
  IF small \in {wInf, wInfinity} THEN [ok |-> TRUE, val |-> Inf(sign)]
  ELSE IF small = wNan THEN [ok |-> TRUE, val |-> NaN]
  ELSE NumeralOf(body, sign, {i \in 1..Len(body) : body[i] \in {101, 69}})

MagnitudeOf(body, sign) == NamedOf(body, sign, LowerASCII(body))

\* the optional sign and what follows it
SignedOf(t) ==
  MagnitudeOf(IF HasSign(t) THEN Tail(t) ELSE t,
              IF HasSign(t) /\ t[1] = 45 THEN 0 - 1 ELSE 1)

\* float(s); ok = FALSE stands for ValueError
FloatOf(s) == SignedOf(FloatStrip(s))

\* lines 291-294: the float, 0.0 when float() raises ValueError
ParsedOr0(f) == IF f.ok THEN f.val ELSE Zero

\* lines 285-294: 0.0 for a falsy string and for a string float() rejects;
\* "$" is 36 and "," is 44
parse_charge(charge_str) ==
  IF ~TruthyChars(charge_str) THEN Zero
  ELSE ParsedOr0(FloatOf(Strip(Remove(Remove(Val(charge_str), 36), 44))))
(***************************************************************************)
(* detect_duplicates                                                       *)
(***************************************************************************)
CountOf(codes, code) == Cardinality({i \in 1..Len(codes) : codes[i].code = code})

detect_duplicates(codes) ==
  [c \in {codes[i].code : i \in {j \in 1..Len(codes) : CountOf(codes, codes[j].code) > 1}}
     |-> CountOf(codes, c)]

(***************************************************************************)
(* analyze_bill: one request, a step per stage.  The collaborator          *)
(* (client.beta.chat.completions.parse) answers each call with an          *)
(* exception ("error"), a reply without choices ("nochoice"), a reply      *)
(* whose parsed object is None ("unparsed"), or a parsed object.           *)
(***************************************************************************)
DefaultLimit == 5

NoAppealMessage == "No disputed charges found. No appeal letter is needed."

NoIssuesReasoning == "No validation issues found."

\* "garbage"
cGarbage == <<103, 97, 114, 98, 97, 103, 101>>

\* "$1,200.50"
cPrice1200 == <<36, 49, 44, 50, 48, 48, 46, 53, 48>>

\* " 4e1" and a carriage return, the 4 written as the Arabic-Indic digit
cPrice40 == <<32, 1636, 101, 49, 13>>

\* "NaN"
cNaN == <<78, 97, 78>>

LineItem(c, d, ch) ==
  [code |-> c, description |-> d, charge |-> ch, units |-> None,
   revenue_code |-> None]

LineItems ==
  { LineItem("A", Some(wKnee \o SP \o wXray), Some(cPrice1200)),
    LineItem("A", Some(wKnee \o SP \o wXray), Some(cGarbage)),
    LineItem("A", Some(wKnee \o SP \o wXray), Some(cNaN)),
    LineItem("B", None, Some(cPrice40)),
    LineItem("Z", Some(wKnee \o SP \o wKnee), None) }

CodeValidation(c, st, r) == [code |-> c, status |-> st, reasoning |-> r]

Validations ==
  { CodeValidation("A", "disputed", "duplicate line"),
    CodeValidation("A", "accepted", "matches the standard charge"),
    CodeValidation("B", "Disputed", "exceeds the standard charge") }

OverallReasonings == {"overall"}

Letters == {"Dear Billing Department"}

Failures == {"error", "nochoice", "unparsed"}

\* the request state: pc is the next stage, or "done" (AnalyzeResponse
\* returned), "failed" (HTTPException 502) or "crashed" (another exception
\* left the handler); stage is the stage that ended the request; calls
\* counts the collaborator calls made per stage; letter is the draft the
\* collaborator returned; failure is the failed reply that ended the request
NewRequest ==
  [pc |-> "extract", stage |-> "", codes |-> <<>>, duplicates |-> <<>>,
   validations |-> <<>>, overall_reasoning |-> "", codes_analysis |-> <<>>,
   savings |-> Zero, appeal_draft |-> "", letter |-> None, failure |-> "",
   calls |-> [extract |-> 0, validate |-> 0, draft |-> 0]]

\* no request is being served
NoRequest == [NewRequest EXCEPT !.pc = "none"]

Called(r, stage) == [r EXCEPT !.calls[stage] = @ + 1]

\* how a failed call ends the request: the exception of the call is turned
\* into HTTPException(502); a parsed None is; `result.choices[0]` on a reply
\* without choices raises IndexError outside the try block
Fail(r, stage, failure) ==
  [r EXCEPT !.pc = IF failure = "nochoice" THEN "crashed" ELSE "failed",
            !.stage = stage, !.failure = failure]

\* lines 246-282
extract_hcpcs_codes ==
  /\ loaded
  /\ req.pc = "extract"
  /\ \/ \E f \in Failures : req' = Fail(Called(req, "extract"), "extract", f)
     \/ \E codes \in SeqsUpTo(LineItems, MaxItems) :
          req' = [Called(req, "extract") EXCEPT !.pc = "validate", !.codes = codes]
  /\ UNCHANGED <<doc, HCPCS_DATABASE, loaded, ret>>

\* lines 339-345: the entry of one line item in the enriched list
Enriched(hcpcs, duplicates, billed_charge, exact_lookup, alternatives) ==
  [raised |-> FALSE, code |-> hcpcs.code, billed_charge |-> billed_charge,
   duplicate_warning |-> hcpcs.code \in DOMAIN duplicates,
   standard_pricing |-> exact_lookup, cheaper_alternatives |-> alternatives]

\* lines 333-337: the search for cheaper alternatives can raise
Searched(hcpcs, duplicates, billed_charge, exact_lookup, similar) ==
  IF similar.raised THEN [raised |-> TRUE]
  ELSE Enriched(hcpcs, duplicates, billed_charge, exact_lookup, similar.result)

\* lines 328-345, for the parsed charge and the outcome of the exact lookup
EnrichWith(db, hcpcs, duplicates, billed_charge, exact_lookup) ==
  IF exact_lookup.raised THEN [raised |-> TRUE]
  ELSE IF exact_lookup.found /\ TruthyChars(hcpcs.description)
          /\ FloatLess(Zero, billed_charge)
  THEN Searched(hcpcs, duplicates, billed_charge, exact_lookup,
                SimilarResult(db, Val(hcpcs.description), billed_charge,
                              DefaultLimit))
  ELSE Enriched(hcpcs, duplicates, billed_charge, exact_lookup, <<>>)

\* lines 312-345 for one line item: the charge, the exact lookup, then the
\* search for cheaper alternatives; the lookup and the search can raise
Enrich(db, hcpcs, duplicates) ==
  EnrichWith(db, hcpcs, duplicates, parse_charge(hcpcs.charge),
             LookupResult(db, hcpcs.code, None, None))

EnrichRaises(db, codes, duplicates) ==
  \E i \in 1..Len(codes) : Enrich(db, codes[i], duplicates).raised

\* lines 468-477 and 304-389: detect_duplicates, the enrichment, the call
validate_medical_necessity ==
  /\ req.pc = "validate"
  /\ LET duplicates == detect_duplicates(req.codes)
         r == [req EXCEPT !.duplicates = duplicates]
     IN IF EnrichRaises(HCPCS_DATABASE, req.codes, duplicates)
        THEN req' = [r EXCEPT !.pc = "crashed", !.stage = "validate"]
        ELSE \/ \E f \in Failures :
                  req' = Fail(Called(r, "validate"), "validate", f)
             \/ \E vs \in SeqsUpTo(Validations, MaxValidations),
                   o \in OverallReasonings :
                  req' = [Called(r, "validate") EXCEPT
                            !.pc = "merge", !.validations = vs,
                            !.overall_reasoning = o]
  /\ UNCHANGED <<doc, HCPCS_DATABASE, loaded, ret>>

\* {v.code: v for v in validation.validations}.get(code): the last
\* validation with that code, None when there is none
ValidationFor(validations, code) ==
  LET hits == {i \in 1..Len(validations) : validations[i].code = code}
  IN IF hits = {} THEN None
     ELSE Some(validations[CHOOSE i \in hits : \A j \in hits : j <= i])

DefaultValidationDisputed(code) ==
  CodeValidation(code, "disputed", NoIssuesReasoning)

\* lines 493-497
DefaultValidation(code) == CodeValidation(code, "accepted", NoIssuesReasoning)

\* lines 503-504
Accumulate(savings, status, charge) ==
  IF status = "disputed" THEN FloatAdd(savings, charge) ELSE savings

\* lines 491-497: the validation of the line, the default when none has
\* its code
ValidationOrDefault(found, code) ==
  IF IsNone(found) THEN DefaultValidation(code) ELSE Val(found)

\* lines 499-514: one pass of the loop, for the line hcpcs, its validation
\* val and its parsed charge
MergeStep(before, hcpcs, val, charge) ==
  [codes_analysis |->
     Append(before.codes_analysis,
            [code |-> hcpcs.code, description |-> hcpcs.description,
             revenue_code |-> hcpcs.revenue_code, status |-> val.status,
             reasoning |-> val.reasoning, billed_charge |-> charge]),
   savings |-> Accumulate(before.savings, val.status, charge)]

\* the loop of lines 488-514 over the first n line items
RECURSIVE MergeUpTo(_, _, _)
MergeUpTo(codes, validations, n) ==
  IF n = 0 THEN [codes_analysis |-> <<>>, savings |-> Zero]
  ELSE MergeStep(MergeUpTo(codes, validations, n - 1), codes[n],
                 ValidationOrDefault(ValidationFor(validations, codes[n].code),
                                     codes[n].code),
                 parse_charge(codes[n].charge))

\* lines 516-522: the response takes the entries and the sum
Merged(r, m) ==
  [r EXCEPT !.pc = "draft", !.codes_analysis = m.codes_analysis,
            !.savings = m.savings]

\* lines 479-522
build_analysis ==
  /\ req.pc = "merge"
  /\ req' = Merged(req, MergeUpTo(req.codes, req.validations, Len(req.codes)))
  /\ UNCHANGED <<doc, HCPCS_DATABASE, loaded, ret>>

DisputedCodesAll(codes_analysis) == codes_analysis

\* line 399
DisputedCodes(codes_analysis) ==
  SelectSeq(codes_analysis, LAMBDA c : c.status = "disputed")

\* lines 392-456 and 524-544: the draft and the response
draft_appeal_letter ==
  /\ req.pc = "draft"
  /\ IF Len(DisputedCodes(req.codes_analysis)) = 0
     THEN req' = [req EXCEPT !.pc = "done", !.stage = "draft",
                             !.appeal_draft = NoAppealMessage]
     ELSE \/ \E f \in Failures : req' = Fail(Called(req, "draft"), "draft", f)
          \/ \E l \in Letters :
               req' = [Called(req, "draft") EXCEPT
                         !.pc = "done", !.stage = "draft",
                         !.appeal_draft = l, !.letter = Some(l)]
  /\ UNCHANGED <<doc, HCPCS_DATABASE, loaded, ret>>

Init ==
  /\ doc \in Documents(Records, MaxRecords)
  /\ HCPCS_DATABASE = <<>>
  /\ loaded = FALSE
  /\ ret = NoCall
  /\ req = NoRequest

Next ==
  \/ load_hcpcs_database
  \/ lookup_hcpcs_code
  \/ find_similar_cheaper_codes

Spec == Init /\ [][Next]_vars

InitBill ==
  /\ doc \in Documents(BillRecords, MaxBillRecords)
  /\ HCPCS_DATABASE = <<>>
  /\ loaded = FALSE
  /\ ret = NoCall
  /\ req = NewRequest

NextBill ==
  \/ load_hcpcs_database
  \/ extract_hcpcs_codes
  \/ validate_medical_necessity
  \/ build_analysis
  \/ draft_appeal_letter

SpecBill == InitBill /\ [][NextBill]_vars

(***************************************************************************)
(* Properties of the index, the lookup and the search.                     *)
(***************************************************************************)
\* record rec lists `code` with type "HCPCS"
ListsHCPCS(rec, code) ==
  /\ rec.isdict
  /\ \E i \in 1..Len(rec.code_information) :
       /\ rec.code_information[i].isdict
       /\ rec.code_information[i].type = "HCPCS"
       /\ rec.code_information[i].code = Some(code)

ListingRecords(code) ==
  IF doc.kind = "json"
  THEN {r \in 1..Len(doc.data) : ListsHCPCS(doc.data[r], code)}
  ELSE {}

\* the code of the first code_info of the record tagged "RC", or None
FirstRC(rec) ==
  LET rcs == {i \in 1..Len(rec.code_information) :
                rec.code_information[i].isdict /\ rec.code_information[i].type = "RC"}
  IN IF rcs = {} THEN None ELSE rec.code_information[MinOf(rcs)].code

\* C1: after load_hcpcs_database the index holds at most one entry per code,
\* and each entry carries the description, the price variants and the revenue
\* code of the first record of the dataset that lists its code with type
\* "HCPCS"; later records with the same code do not change it.
C1_FirstOccurrenceWins ==
  loaded =>
    /\ \A i, j \in 1..Len(HCPCS_DATABASE) :
         HCPCS_DATABASE[i].code = HCPCS_DATABASE[j].code => i = j
    /\ \A i \in 1..Len(HCPCS_DATABASE) :
         LET e == HCPCS_DATABASE[i]
         IN /\ ListingRecords(e.code) # {}
            /\ LET first == doc.data[MinOf(ListingRecords(e.code))]
               IN /\ e.description = first.description
                  /\ e.standard_charges = first.standard_charges
                  /\ e.revenue_code = FirstRC(first)

\* a code indexed from a dataset in which a later record lists it again with
\* another description
C1_Witness ==
  /\ loaded
  /\ \E i \in 1..Len(HCPCS_DATABASE) :
       \E r1, r2 \in ListingRecords(HCPCS_DATABASE[i].code) :
         /\ r1 < r2
         /\ doc.data[r1].description # doc.data[r2].description
         /\ doc.data[r1].standard_charges # doc.data[r2].standard_charges

\* C2: if the source document is absent or malformed (also when the
\* malformation is met after well-formed records), the index is empty after
\* load_hcpcs_database returns.  The load has no raising outcome.
C2_EmptyOnFailure ==
  loaded /\ (doc.kind = "absent" \/ LoadFailed(doc)) => Len(HCPCS_DATABASE) = 0

\* C3: lookup_hcpcs_code never raises; found is false exactly when the code
\* is not a key of the index, and a found result carries the entry's
\* description and revenue code, also for an entry without description.
C3_LookupNeverRaises ==
  ret.op = "lookup" =>
    /\ ~ret.out.raised
    /\ ret.out.found <=> HasCode(HCPCS_DATABASE, ret.code)
    /\ ret.out.found =>
         /\ ret.out.description = EntryOf(HCPCS_DATABASE, ret.code).description
         /\ ret.out.revenue_code = EntryOf(HCPCS_DATABASE, ret.code).revenue_code

\* a filter is unset when it is None or the empty string
Unset(f) == IsNone(f) \/ f = Some("")

\* the variants of `charges` the filters keep, in source order
KeptVariants(charges, setting, billing_class) ==
  SelectSeq(charges,
    LAMBDA v : /\ (Unset(setting) \/ v.setting = Some("both") \/ v.setting = setting)
               /\ (Unset(billing_class) \/ v.billing_class = billing_class))

\* C4: for a code in the index, a returned lookup carries the first
\* min(5, n) of the n variants the filters keep, in source order (all variants
\* are kept when both filters are unset), and the reported variant count is
\* the length of the unfiltered variant list.
C4_FilteredVariants ==
  (ret.op = "lookup" /\ HasCode(HCPCS_DATABASE, ret.code) /\ ~ret.out.raised) =>
    LET charges == EntryOf(HCPCS_DATABASE, ret.code).standard_charges
        kept == KeptVariants(charges, ret.setting, ret.billing_class)
        n == Len(kept)
    IN /\ ret.out.found
       /\ Len(ret.out.standard_charges) = (IF n < 5 THEN n ELSE 5)
       /\ \A k \in 1..Len(ret.out.standard_charges) :
            ret.out.standard_charges[k] = kept[k]
       /\ (Unset(ret.setting) /\ Unset(ret.billing_class)) => kept = charges
       /\ ret.out.num_charge_variants = Len(charges)

\* a filtered lookup that kept a variant through "both", dropped others and
\* cut more than five kept variants down to five
C4_Witness ==
  /\ ret.op = "lookup"
  /\ HasCode(HCPCS_DATABASE, ret.code)
  /\ ~ret.out.raised
  /\ ~Unset(ret.setting)
  /\ Len(ret.out.standard_charges) = 5
  /\ \E k \in 1..5 : ret.out.standard_charges[k].setting = Some("both")
  /\ LET charges == EntryOf(HCPCS_DATABASE, ret.code).standard_charges
     IN /\ Len(KeptVariants(charges, ret.setting, ret.billing_class)) > 5
        /\ Len(KeptVariants(charges, ret.setting, ret.billing_class)) < Len(charges)

\* the query's significant keywords: whitespace tokens longer than 3
\* characters, lower-cased, not stop-words; a set, so each keyword counts once
SignificantKeywords(description) ==
  LET words == Split(description)
  IN {Lower(words[i]) : i \in {j \in 1..Len(words) :
                                 Len(words[j]) > 3 /\ Lower(words[j]) \notin common_words}}

DistinctMatches(description, e) ==
  Cardinality({k \in SignificantKeywords(description) :
                 IsSubstring(k, Lower(Val(e.description)))})

\* the gross charges present on the entry's variants, 0 included; a nan
\* is no value and takes no part
PresentPrices(e) ==
  {Val(e.standard_charges[i].gross_charge) :
     i \in {j \in 1..Len(e.standard_charges) :
              /\ ~IsNone(e.standard_charges[j].gross_charge)
              /\ Val(e.standard_charges[j].gross_charge).kind # "nan"}}

\* the least of a set of floats none of which is nan
LeastPrice(S) == CHOOSE m \in S : \A x \in S : ~FloatLess(x, m)

Returned(code) ==
  \E k \in 1..Len(ret.out.result) : ret.out.result[k].code = code

\* C5: an entry with a priced variant and a ceiling above its minimum price
\* is in the result when at least 2 distinct significant keywords of the
\* query occur in its lower-cased description, and is not when only 0 or 1
\* do; repeating a keyword in the query does not reach the threshold.
\* (Stated for calls that return and whose limit cannot cut the entry off.)
C5_TwoIndependentKeywords ==
  (ret.op = "similar" /\ ~ret.out.raised /\ ret.limit >= Len(HCPCS_DATABASE)) =>
    \A i \in 1..Len(HCPCS_DATABASE) :
      LET e == HCPCS_DATABASE[i]
      IN (/\ ~IsNone(e.description)
          /\ PresentPrices(e) # {}
          /\ FloatLess(LeastPrice(PresentPrices(e)), ret.max_price))
         => /\ DistinctMatches(ret.description, e) >= 2 => Returned(e.code)
            /\ DistinctMatches(ret.description, e) <= 1 => ~Returned(e.code)

\* candidate a ranks strictly above candidate b
RanksAbove(a, b) ==
  \/ a.match_score > b.match_score
  \/ a.match_score = b.match_score /\ FloatLess(a.min_price, b.min_price)

\* the candidates that survive the keyword and price tests, in index order
Survivors ==
  ScanEntries(HCPCS_DATABASE, Keywords(ret.description), ret.max_price, 1)

\* the returned sequence is sorted by match count descending, then by
\* minimum price ascending, and is a prefix of that ordering over all
\* surviving candidates: every element is a survivor, none comes twice, and
\* no omitted candidate ranks strictly above a returned one
SortedPrefixOf(res, surv) ==
  /\ \A i, j \in 1..Len(res) : i < j => ~RanksAbove(res[j], res[i])
  /\ \A i \in 1..Len(res) : \E k \in 1..Len(surv) : surv[k] = res[i]
  /\ \A i, j \in 1..Len(res) : res[i].code = res[j].code => i = j
  /\ \A k \in 1..Len(surv) :
       ~Returned(surv[k].code) =>
         \A i \in 1..Len(res) : ~RanksAbove(surv[k], res[i])

\* the number of elements the slice [:limit] leaves of n: the first limit
\* for limit >= 0, all but the last -limit for limit < 0
SliceLen(n, limit) ==
  IF limit >= 0 THEN (IF n < limit THEN n ELSE limit)
  ELSE IF n + limit < 0 THEN 0 ELSE n + limit

\* C6 as stated: the returned sequence is sorted by match count descending,
\* then by minimum price ascending; it has at most `limit` elements and is a
\* prefix of that ordering over all surviving candidates: no omitted
\* candidate ranks strictly above a returned one.  A call with a negative
\* limit returns more than `limit` elements.
C6_AtMostLimit ==
  (ret.op = "similar" /\ ~ret.out.raised /\ Len(Keywords(ret.description)) > 0) =>
    /\ Len(ret.out.result) <= ret.limit
    /\ SortedPrefixOf(ret.out.result, Survivors)

\* C6, amended: the returned sequence is sorted by match count descending,
\* then by minimum price ascending, and is a prefix of that ordering over
\* all surviving candidates: no omitted candidate ranks strictly above a
\* returned one.  Of n surviving candidates it has min(n, limit) elements
\* when limit >= 0, hence at most `limit`, and max(n + limit, 0) elements
\* when limit < 0.
C6_SortedPrefix ==
  (ret.op = "similar" /\ ~ret.out.raised /\ Len(Keywords(ret.description)) > 0) =>
    LET res == ret.out.result
        surv == Survivors
    IN /\ Len(res) = SliceLen(Len(surv), ret.limit)
       /\ ret.limit >= 0 => Len(res) <= ret.limit
       /\ SortedPrefixOf(res, surv)

\* a search with a negative limit that reordered the candidates and cut one
\* off whose match count ties with a returned, cheaper candidate
C6_Witness ==
  /\ ret.op = "similar"
  /\ ~ret.out.raised
  /\ ret.limit < 0
  /\ Len(Keywords(ret.description)) > 0
  /\ Len(ret.out.result) >= 2
  /\ ret.out.result[1].match_score > ret.out.result[2].match_score
  /\ LET surv == Survivors
     IN /\ Len(surv) > Len(ret.out.result)
        /\ ret.out.result # SubSeq(surv, 1, Len(ret.out.result))
        /\ \E k \in 1..Len(surv) :
             /\ ~Returned(surv[k].code)
             /\ surv[k].match_score = ret.out.result[Len(ret.out.result)].match_score
             /\ FloatLess(ret.out.result[Len(ret.out.result)].min_price,
                          surv[k].min_price)

\* C7: every returned candidate has min_price equal to the minimum of the
\* gross charges present on its entry's variants (a present 0 takes part, an
\* absent one does not), strictly below the ceiling; an entry with no priced
\* variant is never returned.
C7_MinPriceOverPresent ==
  (ret.op = "similar" /\ ~ret.out.raised) =>
    \A k \in 1..Len(ret.out.result) :
      LET e == EntryOf(HCPCS_DATABASE, ret.out.result[k].code)
      IN /\ PresentPrices(e) # {}
         /\ ret.out.result[k].min_price = LeastPrice(PresentPrices(e))
         /\ FloatLess(ret.out.result[k].min_price, ret.max_price)

(***************************************************************************)
(* Properties of analyze_bill.                                             *)
(***************************************************************************)
IsDisputed(c) == c.status = "disputed"

AnyDisputed == \E i \in 1..Len(req.codes_analysis) : IsDisputed(req.codes_analysis[i])

\* the amount a line contributes as the claim counts it: the number its
\* charge spells, 0 for a charge that is empty or spells no number
FiniteOr0(v) == IF v.kind = "finite" THEN v ELSE Zero

ChargeAmount(charge) == FiniteOr0(parse_charge(charge))

\* the sum over the first n lines, in extraction order, of the amounts of
\* the lines whose result is disputed
RECURSIVE SumCharges(_)
SumCharges(n) ==
  IF n = 0 THEN Zero
  ELSE IF IsDisputed(req.codes_analysis[n])
       THEN FloatAdd(SumCharges(n - 1), ChargeAmount(req.codes[n].charge))
  ELSE SumCharges(n - 1)

\* C8: when analyze_bill completes, savings is the sum of the parsed billed
\* charges of exactly the per-instance results whose status is disputed, each
\* occurrence of a repeated code counted with its own charge; an empty or
\* malformed charge counts 0.
C8_SavingsSumOfDisputed ==
  req.pc = "done" =>
    /\ Len(req.codes_analysis) = Len(req.codes)
    /\ req.savings = SumCharges(Len(req.codes_analysis))

\* the validation results returned for a code
ResultsFor(code) ==
  {i \in 1..Len(req.validations) : req.validations[i].code = code}

\* C9: when analyze_bill completes, the per-instance list has one entry per
\* extracted line item, in extraction order and not deduplicated; each entry
\* has the status and reasoning of the validation result returned for its
\* code (the last one, when the collaborator returned several for the code),
\* or accepted with the generic reasoning when none was returned.
C9_OneEntryPerLineItem ==
  req.pc = "done" =>
    /\ Len(req.codes_analysis) = Len(req.codes)
    /\ \A i \in 1..Len(req.codes) :
         LET a == req.codes_analysis[i]
             hits == ResultsFor(req.codes[i].code)
         IN /\ a.code = req.codes[i].code
            /\ a.description = req.codes[i].description
            /\ a.revenue_code = req.codes[i].revenue_code
            /\ hits = {} =>
                 /\ a.status = "accepted"
                 /\ a.reasoning = "No validation issues found."
            /\ hits # {} =>
                 LET v == req.validations[CHOOSE h \in hits : \A g \in hits : g <= h]
                 IN a.status = v.status /\ a.reasoning = v.reasoning

\* a completed request with a repeated code that has a validation result and
\* another line whose code has none
C9_Witness ==
  /\ req.pc = "done"
  /\ \E i, j \in 1..Len(req.codes) :
       /\ i < j
       /\ req.codes[i].code = req.codes[j].code
       /\ ResultsFor(req.codes[i].code) # {}
       /\ req.codes_analysis[i].status = "disputed"
       /\ req.codes_analysis[j].status = "disputed"
  /\ \E k \in 1..Len(req.codes) :
       /\ ResultsFor(req.codes[k].code) = {}
       /\ req.codes_analysis[k].status = "accepted"

\* C10: in the draft step, when no per-instance result is disputed the
\* appeal text is the fixed message and the drafting collaborator is never
\* called in the request; when one is, the collaborator is called exactly
\* once and the appeal text is the letter it returned.
C10_DraftShortCircuit ==
  /\ req.stage # "draft" => req.calls.draft = 0
  /\ req.stage = "draft" =>
       /\ ~AnyDisputed =>
            /\ req.pc = "done"
            /\ req.appeal_draft = "No disputed charges found. No appeal letter is needed."
            /\ req.calls.draft = 0
       /\ AnyDisputed =>
            /\ req.calls.draft = 1
            /\ req.pc = "done" =>
                 ~IsNone(req.letter) /\ req.appeal_draft = Val(req.letter)

\* a completed request with line items, none of them disputed
C10_Witness ==
  /\ req.pc = "done"
  /\ req.stage = "draft"
  /\ Len(req.codes_analysis) > 0
  /\ ~AnyDisputed
  /\ req.calls.draft = 0
  /\ req.appeal_draft = NoAppealMessage

\* the stages whose collaborator call comes after that of stage st
LaterStages(st) ==
  CASE st = "extract" -> {"validate", "draft"}
    [] st = "validate" -> {"draft"}
    [] OTHER -> {}

\* C11: a request makes its collaborator calls in the order extract,
\* validate, draft, each at most once; it ends either with the complete
\* response, after every stage succeeded, or with the upstream-failure error;
\* a failed collaborator reply at any stage (an exception, an unparseable or
\* empty structured output, a reply with no choice at all) ends the request
\* with the upstream-failure error and no later stage's call is made.
C11_TwoOutcomes ==
  /\ \A st \in {"extract", "validate", "draft"} : req.calls[st] <= 1
  /\ req.calls.validate = 1 => req.calls.extract = 1
  /\ req.calls.draft = 1 => req.calls.validate = 1
  /\ req.pc \in {"extract", "validate", "merge", "draft", "done", "failed"}
  /\ req.failure # "" =>
       /\ req.pc = "failed"
       /\ \A st \in LaterStages(req.stage) : req.calls[st] = 0
  /\ req.pc = "done" =>
       /\ req.failure = ""
       /\ req.calls.extract = 1
       /\ req.calls.validate = 1
       /\ req.calls.draft = 1 \/ ~AnyDisputed
====
